---- MODULE Spec2Model ----
(***************************************************************************)
(* The top-N collector pipeline (search/collector, TopNCollector.Collect)  *)
(* and MultiSearch (MultiSearcherList) of bluge, as a state machine.       *)
(*                                                                         *)
(* A match is named by its emission index: docs[i] is the i-th match that  *)
(* searcher.Next handed to Collect.  Every goroutine of the code is a      *)
(* process of the model: Collect's main loop (pc), one task per match      *)
(* (tpc), the four stage loops (stState) and, for MultiSearch, one    *)
(* task per searcher (spc) plus the collecting task that closes docChan.   *)
(***************************************************************************)
EXTENDS Integers, Sequences, FiniteSets, TLC

(* ------------------------------ bounds --------------------------------- *)

\* Most matches all searchers hold together.
MaxDocs == 3

\* Sort keys (the value sort.Compute derives for a match) are 1..MaxKey.
MaxKey == 2

\* Requested size is 0..MaxSize, skip is 0..MaxSkip.
MaxSize == 2

MaxSkip == 1

\* Requested size in the runs with faults.
MaxFaultSize == 1

\* Search-after key (0: none) in the runs with failing loads.
MaxStageAfter == 1

\* MultiSearch runs over 0..MaxSearchers readers.
MaxSearchers == 2
MaxMultiKey == 1

\* index.Config: the caller holds at most MaxConfigs Config values, nap times
\* are 0..MaxNapTime, and there are MaxCalc norm functions, MaxField virtual
\* fields and MaxPlugin segment plugins to pass to the builders.
MaxConfigs == 4
MaxNapTime == 1
MaxCalc == 1
MaxField == 3
MaxPlugin == 2

\* CheckDoneEvery of the collector, scaled down from the source's 1024 so
\* that the hit counter crosses a multiple of it within MaxDocs matches.
CheckDoneEvery == 2

(* --------------------------- program constants ------------------------- *)

\* Capacity of each of the four pipeline channels.
PipelineCap == 10

Keys == 1..MaxKey
MultiKeys == 1..MaxMultiKey

Ids == 1..MaxDocs

Stages == {"load", "sort", "consume", "compare"}

VARIABLES
    multi,          \* TRUE: Collect reads a MultiSearcherList
    faults,         \* TRUE: Next and LoadDocumentValues can fail in this run
    \* the collector's configuration
    size, skip, searchAfter, reverse,
    \* the context
    ctxDone,
    \* Collect
    pc, cur, docs, hitNumber, closePipelines,
    results, retIter, retErr, closeCalls,
    \* the matches
    tpc, HitNumber, Err, SortValue, consumed, puts, sig,
    \* the pipelines
    loadQ, sortQ, consumeQ, compareQ, stState,
    comparing, putBefore, putAfter, store, lowest,
    \* MultiSearcherList: collectAllDocuments, its searcher tasks, the match
    \* each holds, how many matches each pulled and sent, and docChan
    cpc, spc, sdm, produced, sent, docChan, chanClosed,
    \* history: the counter values at which a task polled ctx.Done, whether
    \* some poll found it signalled, whether a searcher.Next call of Collect
    \* returned an error
    polled, pollHit, nextFailed,
    \* index.Config: the Config values the caller holds, and the maps their
    \* virtualFields and supportedSegmentPlugins fields refer to
    configs, virtualFields, supportedSegmentPlugins

configVars == <<configs, virtualFields, supportedSegmentPlugins>>

inputVars == <<multi, faults, size, skip, searchAfter, reverse>>

collectVars == <<pc, cur, docs, hitNumber, closePipelines,
                 results, retIter, retErr, closeCalls>>

matchVars == <<tpc, HitNumber, Err, SortValue, consumed, puts, sig>>

pipeVars == <<loadQ, sortQ, consumeQ, compareQ, stState,
              comparing, putBefore, putAfter, store, lowest>>

multiVars == <<cpc, spc, sdm, produced, sent, docChan, chanClosed>>

histVars == <<polled, pollHit, nextFailed>>

vars == <<inputVars, ctxDone, collectVars, matchVars, pipeVars, multiVars, histVars,
          configVars>>

(* ------------------------------ helpers -------------------------------- *)

\* Whether a call that can fail does: it never does in a run without faults.
Failures == IF faults THEN BOOLEAN ELSE {FALSE}

\* docs[i] is the i-th match Collect pulled: match number n of searcher src,
\* with the field value key its sort value is computed from.
Match(s, n, k) == [src |-> s, n |-> n, key |-> k]

Key(i) == docs[i].key

\* The number of matches Collect has pulled from its searcher.
Emitted == Len(docs)

(* --------------------- sort order and store ---------------------------- *)

\* SortOrder.Compare on (sort value, hit number) pairs: the sort values
\* decide, and equal sort values fall back on the hit number.
CompareVals(k1, h1, k2, h2) ==
    IF k1 < k2 THEN -1
    ELSE IF k1 > k2 THEN 1
    ELSE IF h1 = h2 THEN 0
    ELSE IF h1 > h2 THEN 1
    ELSE -1

\* hc.sort.Compare(i, j) on two matches of the run.
Compare(i, j) == CompareVals(SortValue[i], HitNumber[i], SortValue[j], HitNumber[j])

\* hc.sort.Compare(d, hc.searchAfter) after hc.searchAfter.HitNumber = d.HitNumber.
CompareAfter(d) == CompareVals(SortValue[d], HitNumber[d], searchAfter, HitNumber[d])

\* The store's add: d goes behind every element that sorts before it.
StoreAdd(s, d) ==
    LET k == Cardinality({j \in 1..Len(s) : Compare(s[j], d) < 0})
    IN  SubSeq(s, 1, k) \o <<d>> \o SubSeq(s, k + 1, Len(s))

\* collectorStore.AddNotExceedingSize(d, n): the store after the call and
\* the element removed (0 for nil).
AddNotExceedingSize(s, d, n) ==
    LET a == StoreAdd(s, d)
    IN  IF Len(a) > n
        THEN [store |-> SubSeq(a, 1, Len(a) - 1), removed |-> a[Len(a)]]
        ELSE [store |-> a, removed |-> 0]

\* collectorStore.Final(skip, fixup): the stored matches in order, without
\* the first skip of them.
Final(s, n) == IF n >= Len(s) THEN <<>> ELSE SubSeq(s, n + 1, Len(s))

Reverse(s) == [k \in 1..Len(s) |-> s[Len(s) + 1 - k]]

\* finalizeResults: hc.results of the store, reversed under hc.reverse.
FinalizeResults == IF reverse THEN Reverse(Final(store, skip)) ELSE Final(store, skip)

(* ------------------------------- Init ---------------------------------- *)

\* What every run starts from, whatever the searcher and the request.
InitRun ==
    /\ ctxDone = FALSE
    /\ pc = "start" /\ cur = 0 /\ docs = <<>>
    /\ hitNumber = 0 /\ closePipelines = FALSE
    /\ results = <<>> /\ retIter = FALSE /\ retErr = {} /\ closeCalls = 0
    /\ tpc = [i \in Ids |-> "none"]
    /\ HitNumber = [i \in Ids |-> 0]
    /\ Err = [i \in Ids |-> FALSE]
    /\ SortValue = [i \in Ids |-> 0]
    /\ consumed = [i \in Ids |-> 0]
    /\ puts = [i \in Ids |-> 0]
    /\ sig = [i \in Ids |-> <<>>]
    /\ loadQ = <<>> /\ sortQ = <<>> /\ consumeQ = <<>> /\ compareQ = <<>>
    /\ stState = [s \in Stages |-> "unstarted"]
    /\ comparing = 0 /\ putBefore = 0 /\ putAfter = 0 /\ store = <<>> /\ lowest = 0
    /\ cpc = IF multi THEN "size" ELSE "none"
    /\ sdm = [s \in DOMAIN spc |-> 0]
    /\ produced = [s \in DOMAIN spc |-> 0]
    /\ sent = [s \in DOMAIN spc |-> 0]
    /\ docChan = <<>> /\ chanClosed = FALSE
    /\ polled = {} /\ pollHit = FALSE /\ nextFailed = FALSE

\* No Config value has been built yet.
NoConfig ==
    /\ configs = <<>>
    /\ virtualFields = <<>>
    /\ supportedSegmentPlugins = <<>>

\* NewTopNCollector(size, skip, sort), or NewTopNCollectorAfter(size, sort,
\* after, reverse), which leaves skip at 0.
InitCollector ==
    /\ size \in 0..MaxSize
    /\ \/ skip \in 0..MaxSkip /\ searchAfter = 0 /\ reverse = FALSE
       \/ skip = 0 /\ searchAfter \in Keys /\ reverse \in BOOLEAN

\* NewTopNCollector(size, 0, sort) for the runs with faults.
InitSmallCollector ==
    /\ size \in 0..MaxFaultSize
    /\ skip = 0 /\ searchAfter = 0 /\ reverse = FALSE

\* Collect over one searcher, nothing failing and the context never done.
Init ==
    /\ multi = FALSE
    /\ faults = FALSE
    /\ InitCollector
    /\ spc = <<>>
    /\ InitRun
    /\ NoConfig

\* Collect over one searcher whose Next can fail, with doc values whose load
\* can fail, under a context that can be cancelled.
FaultInit ==
    /\ multi = FALSE
    /\ faults = TRUE
    /\ InitSmallCollector
    /\ spc = <<>>
    /\ InitRun
    /\ NoConfig

\* Collect over one searcher whose Next can fail, with doc values whose load
\* can fail, with and without a search-after key; the context is never done.
PipelineInit ==
    /\ multi = FALSE
    /\ faults = TRUE
    /\ size = MaxFaultSize /\ skip = 0
    /\ searchAfter \in 0..MaxStageAfter /\ reverse = FALSE
    /\ spc = <<>>
    /\ InitRun
    /\ NoConfig

\* MultiSearch over 0..MaxSearchers readers: NewMultiSearcherList starts
\* collectAllDocuments, which starts one task per searcher, and the shared
\* collector reads the list.
MultiInit ==
    /\ multi = TRUE
    /\ faults = FALSE
    /\ InitSmallCollector
    /\ spc \in {[s \in 1..n |-> "idle"] : n \in 0..MaxSearchers}
    /\ InitRun
    /\ NoConfig

(* ------------------------------ context -------------------------------- *)

\* The caller cancels the context (or its deadline passes).
Cancel ==
    /\ ~ctxDone
    /\ ctxDone' = TRUE
    /\ UNCHANGED <<configVars, inputVars, collectVars, matchVars, pipeVars, multiVars, histVars>>

(* ------------------------------ Collect -------------------------------- *)

\* Mutant: Collect returns without the deferred searcher.Close.
ReturnWithoutClose(iter, err) ==
    /\ pc' = "returned"
    /\ retIter' = iter
    /\ retErr' = err
    /\ closeCalls' = closeCalls

\* A return of Collect: the deferred searcher.Close runs, and the caller
\* gets (iterator, error); err = {} is a nil error.
Return(iter, err) ==
    /\ pc' = "returned"
    /\ retIter' = iter
    /\ retErr' = err
    /\ closeCalls' = closeCalls + 1

\* The select on ctx.Done before the first searcher.Next.
CollectStart ==
    /\ pc = "start"
    /\ pollHit' = ctxDone
    /\ IF ctxDone
       THEN /\ Return(FALSE, {"cancelled"})
            /\ UNCHANGED <<cur, docs, hitNumber, closePipelines, results>>
       ELSE /\ pc' = "next"
            /\ UNCHANGED <<cur, docs, hitNumber, closePipelines,
                           results, retIter, retErr, closeCalls>>
    /\ UNCHANGED <<configVars, inputVars, ctxDone, matchVars, pipeVars, multiVars,
                   polled, nextFailed>>

\* What Collect does with the (next, err) a searcher.Next call returned:
\* the four stage loops start after the first call; a searcher error is
\* returned at once; a match gets its task (errs.Go) and the loop calls
\* Next again; nil ends the loop.
AfterNext(next, err) ==
    /\ stState' = [s \in Stages |->
                     IF stState[s] = "unstarted" THEN "running" ELSE stState[s]]
    /\ cur' = next
    /\ nextFailed' = err
    /\ IF err
       THEN /\ Return(FALSE, {"search"})
            /\ UNCHANGED tpc
       ELSE /\ pc' = IF next = 0 THEN "wait" ELSE "next"
            /\ tpc' = IF next = 0 THEN tpc ELSE [tpc EXCEPT ![next] = "check"]
            /\ UNCHANGED <<retIter, retErr, closeCalls>>
    /\ UNCHANGED <<hitNumber, closePipelines, results>>

\* searcher.Next(searchContext) on a single searcher: a further match, nil
\* (the searcher is drained), or an error.
SearcherNext ==
    /\ pc = "next"
    /\ ~multi
    /\ \/ \E k \in Keys :
             /\ Len(docs) < MaxDocs
             /\ docs' = Append(docs, Match(1, Len(docs) + 1, k))
             /\ AfterNext(Len(docs) + 1, FALSE)
       \/ /\ UNCHANGED docs
          /\ \E err \in Failures : AfterNext(0, err)
    /\ UNCHANGED <<configVars, inputVars, ctxDone, HitNumber, Err, SortValue, consumed, puts, sig,
                   loadQ, sortQ, consumeQ, compareQ,
                   comparing, putBefore, putAfter, store, lowest, multiVars,
                   polled, pollHit>>

\* Mutant: a task that returned its match's load error is never waited out.
TaskEndedWithoutError(i) == tpc[i] \in {"ok", "cancelled"}

\* The task of match i has returned.
TaskEnded(i) == tpc[i] \in {"ok", "err", "cancelled"}

\* Mutant: a task that found the context done returns no error.
TaskErrorsLoadOnly == {"load" : i \in {j \in 1..Emitted : tpc[j] = "err"}}

\* The errors the per-match tasks returned (errs.Wait().ErrorOrNil()).
TaskErrors ==
    {"load" : i \in {j \in 1..Emitted : tpc[j] = "err"}}
        \cup {"cancelled" : i \in {j \in 1..Emitted : tpc[j] = "cancelled"}}

\* errs.Wait() and what follows it: the tasks' error is returned, or the
\* pipelines are closed, the results finalized and the iterator returned;
\* an error of store.Final is returned in place of the iterator.
CollectWait ==
    /\ pc = "wait"
    /\ \A i \in 1..Emitted : TaskEnded(i)
    /\ IF TaskErrors # {}
       THEN /\ Return(FALSE, TaskErrors)
            /\ UNCHANGED <<closePipelines, results>>
       ELSE /\ closePipelines' = TRUE
            /\ \E failed \in Failures :
                  IF failed
                  THEN results' = <<>> /\ Return(FALSE, {"final"})
                  ELSE results' = FinalizeResults /\ Return(TRUE, {})
    /\ UNCHANGED <<configVars, inputVars, ctxDone, cur, docs, hitNumber,
                   matchVars, pipeVars, multiVars, histVars>>

(* --------------------------- per-match task ---------------------------- *)

\* The task's read of the hit counter and, at a multiple of CheckDoneEvery,
\* its poll of ctx.Done.
TaskCheck(i) ==
    /\ tpc[i] = "check"
    /\ IF hitNumber % CheckDoneEvery = 0
       THEN /\ polled' = polled \cup {hitNumber}
            /\ pollHit' = (pollHit \/ ctxDone)
            /\ tpc' = [tpc EXCEPT ![i] = IF ctxDone THEN "cancelled" ELSE "add"]
       ELSE /\ tpc' = [tpc EXCEPT ![i] = "add"]
            /\ UNCHANGED <<polled, pollHit>>
    /\ UNCHANGED <<configVars, inputVars, ctxDone, collectVars,
                   HitNumber, Err, SortValue, consumed, puts, sig, pipeVars, multiVars,
                   nextFailed>>

\* n.HitNumber = atomic.AddInt64(&hitNumber, 1)
TaskAdd(i) ==
    /\ tpc[i] = "add"
    /\ hitNumber' = hitNumber + 1
    /\ HitNumber' = [HitNumber EXCEPT ![i] = hitNumber + 1]
    /\ tpc' = [tpc EXCEPT ![i] = "sendLoad"]
    /\ UNCHANGED <<configVars, inputVars, ctxDone, pc, cur, docs, closePipelines,
                   results, retIter, retErr, closeCalls,
                   Err, SortValue, consumed, puts, sig,
                   pipeVars, multiVars, histVars>>

\* collectSingle: hc.loadDocValuesPipeline <- d, which waits while the
\* channel is full; the task then waits on pf for the stage's signal.
TaskSend(i) ==
    /\ tpc[i] = "sendLoad"
    /\ Len(loadQ) < PipelineCap
    /\ loadQ' = Append(loadQ, i)
    /\ tpc' = [tpc EXCEPT ![i] = "waitLoad"]
    /\ UNCHANGED <<configVars, inputVars, ctxDone, collectVars,
                   HitNumber, Err, SortValue, consumed, puts, sig,
                   sortQ, consumeQ, compareQ,
                   stState, comparing, putBefore, putAfter, store, lowest,
                   multiVars, histVars>>

\* Mutant: collectSingle goes on to the sort stage whatever d.Err is.
AfterLoadIgnoresErr(e) == "waitSort"

\* collectSingle after the load stage's signal: d.Err ends the task.
AfterLoad(e) == IF e THEN "err" ELSE "waitSort"

(* ----------------------------- stage loops ----------------------------- *)
(* A stage's send on d.PipelineFinished is a rendezvous with the <-pf of   *)
(* the match's task, which waits for it since its own send.  A stage step  *)
(* below runs from the stage's receive to that rendezvous and on to the    *)
(* task's send on the next channel (hc.sortPipeline <- d, ...), which      *)
(* waits while that channel is full.                                       *)

\* d.PipelineFinished <- struct{}{} by stage s, received by d's task.
Signal(s, d) == [sig EXCEPT ![d] = Append(@, s)]

\* A stage loop stands at its select.
AtSelect(s) ==
    /\ stState[s] = "running"
    /\ s = "compare" => (putBefore = 0 /\ putAfter = 0)

\* case <-hc.closePipelines: return
StageExit(s) ==
    /\ AtSelect(s)
    /\ closePipelines
    /\ stState' = [stState EXCEPT ![s] = "exited"]
    /\ UNCHANGED <<configVars, inputVars, ctxDone, collectVars, matchVars,
                   loadQ, sortQ, consumeQ, compareQ,
                   comparing, putBefore, putAfter, store, lowest, multiVars, histVars>>

\* startLoadDocValuesPipeline: LoadDocumentValues, which can fail when
\* fields are needed, sets d.Err; the signal is sent either way.
StageLoad ==
    /\ AtSelect("load")
    /\ loadQ # <<>>
    /\ loadQ' = Tail(loadQ)
    /\ \E failed \in Failures :
          /\ Err' = [Err EXCEPT ![Head(loadQ)] = failed]
          /\ sig' = Signal("load", Head(loadQ))
          /\ tpc' = [tpc EXCEPT ![Head(loadQ)] = AfterLoad(failed)]
          /\ IF AfterLoad(failed) = "waitSort"
             THEN Len(sortQ) < PipelineCap /\ sortQ' = Append(sortQ, Head(loadQ))
             ELSE UNCHANGED sortQ
    /\ UNCHANGED <<configVars, inputVars, ctxDone, collectVars,
                   HitNumber, SortValue, consumed, puts,
                   consumeQ, compareQ, stState,
                   comparing, putBefore, putAfter, store, lowest, multiVars, histVars>>

\* hc.sort.Compute(d): the match's sort value.
Compute(d) == Key(d)

\* startSortPipeline: a match with d.Err is passed over without a signal.
StageSort ==
    /\ AtSelect("sort")
    /\ sortQ # <<>>
    /\ sortQ' = Tail(sortQ)
    /\ IF Err[Head(sortQ)]
       THEN UNCHANGED <<SortValue, tpc, sig, consumeQ>>
       ELSE /\ SortValue' = [SortValue EXCEPT ![Head(sortQ)] = Compute(Head(sortQ))]
            /\ sig' = Signal("sort", Head(sortQ))
            /\ tpc' = [tpc EXCEPT ![Head(sortQ)] = "waitConsume"]
            /\ Len(consumeQ) < PipelineCap
            /\ consumeQ' = Append(consumeQ, Head(sortQ))
    /\ UNCHANGED <<configVars, inputVars, ctxDone, collectVars,
                   HitNumber, Err, consumed, puts,
                   loadQ, compareQ, stState,
                   comparing, putBefore, putAfter, store, lowest, multiVars, histVars>>

\* Mutant: the consume stage folds nothing into the bucket.
ConsumeNothing(c, d) == c

\* bucket.Consume(d): the root bucket's count of d.
Consume(c, d) == [c EXCEPT ![d] = @ + 1]

\* startConsumePipeline
StageConsume ==
    /\ AtSelect("consume")
    /\ consumeQ # <<>>
    /\ consumeQ' = Tail(consumeQ)
    /\ IF Err[Head(consumeQ)]
       THEN UNCHANGED <<consumed, tpc, sig, compareQ>>
       ELSE /\ consumed' = Consume(consumed, Head(consumeQ))
            /\ sig' = Signal("consume", Head(consumeQ))
            /\ tpc' = [tpc EXCEPT ![Head(consumeQ)] = "waitCompare"]
            /\ Len(compareQ) < PipelineCap
            /\ compareQ' = Append(compareQ, Head(consumeQ))
    /\ UNCHANGED <<configVars, inputVars, ctxDone, collectVars,
                   HitNumber, Err, SortValue, puts,
                   loadQ, sortQ, stState,
                   comparing, putBefore, putAfter, store, lowest, multiVars, histVars>>

\* Mutant: the search-after filter lets the exact match through.
SkipAfterStrict(d) == searchAfter # 0 /\ CompareAfter(d) < 0

\* The search-after filter: the hit sorts at or before the search-after key.
SkipAfter(d) == searchAfter # 0 /\ CompareAfter(d) <= 0

\* Mutant: the short-circuit's comparison is turned round.
ShortCircuitFlipped(d) == lowest # 0 /\ Compare(d, lowest) <= 0

\* Mutant: no candidate is dropped ahead of the store.
ShortCircuitNever(d) == FALSE

\* The lowest-outside-results short-circuit.
ShortCircuit(d) == lowest # 0 /\ Compare(d, lowest) >= 0

\* The removed match replaces lowestMatchOutsideResults.
ReplacesLowest(removed) == lowest # 0 /\ Compare(removed, lowest) < 0

\* Mutant: the short-circuit puts the match back before it sends the signal.
DropMatchPutFirst(d) ==
    /\ puts' = [puts EXCEPT ![d] = @ + 1]
    /\ UNCHANGED <<tpc, sig, comparing, putBefore, putAfter, store, lowest>>

\* The short-circuit branch: d.PipelineFinished <- struct{}{}, which the
\* match's task receives and returns on, and only then (putAfter, done by
\* ComparePutDrop) ctx.DocumentMatchPool.Put(d).
DropMatch(d) ==
    /\ tpc' = [tpc EXCEPT ![d] = "ok"]
    /\ sig' = Signal("compare", d)
    /\ putAfter' = d
    /\ UNCHANGED <<puts, comparing, putBefore, store, lowest>>

\* startComparePipeline for the next match of its channel.  The Put of the
\* short-circuit follows the signal (putAfter); the Put of the replaced
\* lowestMatchOutsideResults precedes it (putBefore), and the signal is
\* then sent by ComparePutTmp.
StageCompare ==
    /\ AtSelect("compare")
    /\ compareQ # <<>>
    /\ compareQ' = Tail(compareQ)
    /\ LET d == Head(compareQ)
           r == AddNotExceedingSize(store, d, size + skip)
           swap == r.removed # 0 /\ ReplacesLowest(r.removed)
       IN  IF Err[d]
           THEN UNCHANGED <<tpc, sig, puts, comparing, putBefore, putAfter, store, lowest>>
           ELSE IF SkipAfter(d)
           THEN /\ tpc' = [tpc EXCEPT ![d] = "ok"]
                /\ sig' = Signal("compare", d)
                /\ UNCHANGED <<puts, comparing, putBefore, putAfter, store, lowest>>
           ELSE IF ShortCircuit(d)
           THEN DropMatch(d)
           ELSE /\ store' = r.store
                /\ lowest' = IF r.removed # 0 /\ (lowest = 0 \/ swap)
                             THEN r.removed ELSE lowest
                /\ putBefore' = IF swap THEN lowest ELSE 0
                /\ comparing' = IF swap THEN d ELSE 0
                /\ tpc' = IF swap THEN tpc ELSE [tpc EXCEPT ![d] = "ok"]
                /\ sig' = IF swap THEN sig ELSE Signal("compare", d)
                /\ UNCHANGED <<puts, putAfter>>
    /\ UNCHANGED <<configVars, inputVars, ctxDone, collectVars,
                   HitNumber, Err, SortValue, consumed,
                   loadQ, sortQ, consumeQ, stState, multiVars, histVars>>

\* ctx.DocumentMatchPool.Put(tmp), and the signal that follows it.
ComparePutTmp ==
    /\ stState["compare"] = "running"
    /\ putBefore # 0
    /\ puts' = [puts EXCEPT ![putBefore] = @ + 1]
    /\ putBefore' = 0
    /\ comparing' = 0
    /\ tpc' = [tpc EXCEPT ![comparing] = "ok"]
    /\ sig' = Signal("compare", comparing)
    /\ UNCHANGED <<configVars, inputVars, ctxDone, collectVars,
                   HitNumber, Err, SortValue, consumed,
                   loadQ, sortQ, consumeQ, compareQ, stState,
                   putAfter, store, lowest, multiVars, histVars>>

\* ctx.DocumentMatchPool.Put(d) of the short-circuit, after the signal.
ComparePutDrop ==
    /\ stState["compare"] = "running"
    /\ putAfter # 0
    /\ puts' = [puts EXCEPT ![putAfter] = @ + 1]
    /\ putAfter' = 0
    /\ UNCHANGED <<configVars, inputVars, ctxDone, collectVars,
                   tpc, HitNumber, Err, SortValue, consumed, sig,
                   loadQ, sortQ, consumeQ, compareQ, stState,
                   comparing, putBefore, store, lowest, multiVars, histVars>>

(* --------------------------- MultiSearcherList ------------------------- *)

Searchers == DOMAIN spc

\* make(chan *search.DocumentMatch, len(searchers)*2)
DocChanCap == Len(spc) * 2

\* (cc.BackingSize + m.DocumentMatchPoolSize()) / len(m.searchers) divides
\* by zero, which panics.
DividesByZero == Len(spc) = 0

\* collectAllDocuments up to errs.Wait(): the pool size per searcher is
\* computed and one task per searcher started.  The panic of the division
\* is recovered nowhere, so it ends the program, and with it a Collect that
\* has not returned yet.
CollectAllDocuments ==
    /\ cpc = "size"
    /\ IF DividesByZero
       THEN /\ cpc' = "panic"
            /\ pc' = IF pc = "returned" THEN pc ELSE "crashed"
            /\ UNCHANGED spc
       ELSE /\ cpc' = "wait"
            /\ spc' = [s \in DOMAIN spc |-> "next"]
            /\ UNCHANGED pc
    /\ UNCHANGED <<configVars, inputVars, ctxDone, cur, docs, hitNumber, closePipelines,
                   results, retIter, retErr, closeCalls, matchVars, pipeVars,
                   sdm, produced, sent, docChan, chanClosed, histVars>>

\* collectAllDocuments has panicked.
Panicked == cpc = "panic"

RECURSIVE Sum(_, _)
Sum(f, S) == IF S = {} THEN 0
             ELSE LET x == CHOOSE y \in S : TRUE IN f[x] + Sum(f, S \ {x})

\* A searcher task of collectAllDocuments at s.Next(ctx): a further match,
\* whose doc values are then loaded, nil, or an error; a failed load ends the
\* task like a failed Next.
SearcherTaskNext(s) ==
    /\ spc[s] = "next"
    /\ \/ \E k \in MultiKeys, loadFailed \in BOOLEAN :
             /\ Sum(produced, Searchers) < MaxDocs
             /\ produced' = [produced EXCEPT ![s] = @ + 1]
             /\ sdm' = [sdm EXCEPT ![s] = IF loadFailed THEN 0 ELSE k]
             /\ spc' = [spc EXCEPT ![s] = IF loadFailed THEN "failed" ELSE "send"]
       \/ \E err \in BOOLEAN :
             /\ spc' = [spc EXCEPT ![s] = IF err THEN "failed" ELSE "done"]
             /\ UNCHANGED <<sdm, produced>>
    /\ UNCHANGED <<configVars, inputVars, ctxDone, collectVars, matchVars, pipeVars,
                   cpc, sent, docChan, chanClosed, histVars>>

\* m.docChan <- dm, which waits while the channel is full.
SearcherTaskSend(s) ==
    /\ spc[s] = "send"
    /\ ~chanClosed
    /\ Len(docChan) < DocChanCap
    /\ docChan' = Append(docChan, Match(s, produced[s], sdm[s]))
    /\ sent' = [sent EXCEPT ![s] = @ + 1]
    /\ sdm' = [sdm EXCEPT ![s] = 0]
    /\ spc' = [spc EXCEPT ![s] = "next"]
    /\ UNCHANGED <<configVars, inputVars, ctxDone, collectVars, matchVars, pipeVars,
                   cpc, produced, chanClosed, histVars>>

\* Mutant: the channel is closed without waiting for the searcher tasks.
WaitReturnsAtOnce == TRUE

\* Mutant: the first failed searcher task ends the wait.
WaitReturnsOnFailure ==
    \/ \A s \in Searchers : spc[s] \in {"done", "failed"}
    \/ \E s \in Searchers : spc[s] = "failed"

\* errs.Wait() of collectAllDocuments returns: every searcher task has.
WaitReturns == \A s \in Searchers : spc[s] \in {"done", "failed"}

\* collectAllDocuments after errs.Wait(): the error is logged and the channel
\* closed.
CloseDocChan ==
    /\ cpc = "wait"
    /\ ~chanClosed
    /\ WaitReturns
    /\ chanClosed' = TRUE
    /\ cpc' = "done"
    /\ UNCHANGED <<configVars, inputVars, ctxDone, collectVars, matchVars, pipeVars,
                   spc, sdm, produced, sent, docChan, histVars>>

\* Mutant: Next reports the end of the stream on an empty channel.
ReceivesNilWhenEmpty == docChan = <<>>

\* <-m.docChan yields nil: the channel is closed and drained.
ReceivesNil == docChan = <<>> /\ chanClosed

\* MultiSearcherList.Next: <-m.docChan, nil; it never returns an error.
MultiSearcherListNext ==
    /\ pc = "next"
    /\ multi
    /\ IF ReceivesNil
       THEN /\ AfterNext(0, FALSE)
            /\ UNCHANGED <<docs, docChan>>
       ELSE /\ docChan # <<>>
            /\ docChan' = Tail(docChan)
            /\ docs' = Append(docs, Head(docChan))
            /\ AfterNext(Len(docs) + 1, FALSE)
    /\ UNCHANGED <<configVars, inputVars, ctxDone, HitNumber, Err, SortValue, consumed, puts, sig,
                   loadQ, sortQ, consumeQ, compareQ,
                   comparing, putBefore, putAfter, store, lowest,
                   cpc, spc, sdm, produced, sent, chanClosed, polled, pollHit>>

(* ------------------------------ index.Config --------------------------- *)
(* Config is a struct that the builders take by value.  A Go map field of  *)
(* the struct is a reference: the copy a builder works on names the same   *)
(* map as the caller's value.  A Config value of the model therefore holds *)
(* its scalar settings and, for virtualFields and supportedSegmentPlugins, *)
(* the index of a map among the maps allocated so far.                     *)

NapTimes == 0..MaxNapTime

\* The norm functions a caller can pass; 0 stands for the nil default.
Calcs == 1..MaxCalc

\* The virtual fields a caller can pass.  Fields 2k-1 and 2k carry the same
\* name, as two fields of a program can.
Fields == 1..MaxField

\* field.Name()
Name(f) == (f + 1) \div 2

Names == {Name(f) : f \in Fields}

\* The segment plugins a caller can pass; 0 is the ice plugin defaultConfig
\* registers.  PluginKey(p) stands for the pair (p.Type, p.Version): plugin 1
\* has the type and version of the ice plugin, the others differ from it.
Plugins == 1..MaxPlugin

PluginKey(p) == p \div 2

\* config.supportedSegmentPlugins[plugin.Type][plugin.Version] = plugin, on
\* the registry m (the set of the plugins it holds, one per type and version).
Register(m, p) == {q \in m : PluginKey(q) # PluginKey(p)} \cup {p}

\* rv := defaultConfig(), then rv.Directory = dir: a Config with the default
\* settings, a fresh empty virtualFields map and a fresh registry into which
\* rv.WithSegmentPlugin has put the ice plugin; the caller holds one more
\* Config value.
defaultConfig(dir) ==
    /\ virtualFields' = Append(virtualFields, [n \in Names |-> <<>>])
    /\ supportedSegmentPlugins' = Append(supportedSegmentPlugins, Register({}, 0))
    /\ configs' = Append(configs,
                         [Directory |-> dir,
                          PersisterNapTimeMSec |-> 0,
                          NormCalc |-> 0,
                          virtualFields |-> Len(virtualFields) + 1,
                          supportedSegmentPlugins |-> Len(supportedSegmentPlugins) + 1])
    /\ UNCHANGED <<inputVars, ctxDone, collectVars, matchVars, pipeVars, multiVars,
                   histVars>>

\* c := DefaultConfig(path)
DefaultConfig ==
    /\ Len(configs) < MaxConfigs
    /\ defaultConfig("FileSystemDirectory")

\* c := InMemoryOnlyConfig()
InMemoryOnlyConfig ==
    /\ Len(configs) < MaxConfigs
    /\ defaultConfig("InMemoryDirectory")

\* c2 := configs[c].WithPersisterNapTimeMSec(napTime): the field of the copy
\* is set and the copy returned.
WithPersisterNapTimeMSec(c, napTime) ==
    /\ Len(configs) < MaxConfigs
    /\ configs' = Append(configs, [configs[c] EXCEPT !.PersisterNapTimeMSec = napTime])
    /\ UNCHANGED <<virtualFields, supportedSegmentPlugins>>
    /\ UNCHANGED <<inputVars, ctxDone, collectVars, matchVars, pipeVars, multiVars,
                   histVars>>

\* c2 := configs[c].WithVirtualField(field): the field is appended to the
\* entry of its name in the map the copy refers to, and the copy returned.
WithVirtualField(c, field) ==
    /\ Len(configs) < MaxConfigs
    /\ virtualFields' = [virtualFields EXCEPT
                            ![configs[c].virtualFields][Name(field)] = Append(@, field)]
    /\ configs' = Append(configs, configs[c])
    /\ UNCHANGED supportedSegmentPlugins
    /\ UNCHANGED <<inputVars, ctxDone, collectVars, matchVars, pipeVars, multiVars,
                   histVars>>

\* c2 := configs[c].WithNormCalc(calc)
WithNormCalc(c, calc) ==
    /\ Len(configs) < MaxConfigs
    /\ configs' = Append(configs, [configs[c] EXCEPT !.NormCalc = calc])
    /\ UNCHANGED <<virtualFields, supportedSegmentPlugins>>
    /\ UNCHANGED <<inputVars, ctxDone, collectVars, matchVars, pipeVars, multiVars,
                   histVars>>

\* c2 := configs[c].WithSegmentPlugin(plugin): the plugin is stored under its
\* type and version in the registry the copy refers to, and the copy returned.
WithSegmentPlugin(c, plugin) ==
    /\ Len(configs) < MaxConfigs
    /\ supportedSegmentPlugins' = [supportedSegmentPlugins EXCEPT
                                      ![configs[c].supportedSegmentPlugins] = Register(@, plugin)]
    /\ configs' = Append(configs, configs[c])
    /\ UNCHANGED virtualFields
    /\ UNCHANGED <<inputVars, ctxDone, collectVars, matchVars, pipeVars, multiVars,
                   histVars>>

\* The settings of a Config value as its holder reads them: the scalar
\* fields, and the contents of the two maps it refers to.
Settings(cs, vf, sp, c) ==
    [Directory |-> cs[c].Directory,
     PersisterNapTimeMSec |-> cs[c].PersisterNapTimeMSec,
     NormCalc |-> cs[c].NormCalc,
     virtualFields |-> vf[cs[c].virtualFields],
     supportedSegmentPlugins |-> sp[cs[c].supportedSegmentPlugins]]

(* ------------------------------- Spec ---------------------------------- *)

\* Every step of Collect and of the tasks it starts.
CollectStep ==
    \/ CollectStart
    \/ CollectWait
    \/ \E i \in Ids : TaskCheck(i)
    \/ \E i \in Ids : TaskAdd(i)
    \/ \E i \in Ids : TaskSend(i)
    \/ StageLoad
    \/ StageSort
    \/ StageConsume
    \/ StageCompare
    \/ ComparePutTmp
    \/ ComparePutDrop
    \/ \E s \in Stages : StageExit(s)

Next == CollectStep \/ SearcherNext

Spec == Init /\ [][Next]_vars

FaultNext == Next \/ Cancel

FaultSpec == FaultInit /\ [][FaultNext]_vars

\* Collect under a scheduler that lets a goroutine that can run do so.
PipelineSpec == PipelineInit /\ [][Next]_vars /\ WF_vars(Next)

\* Every step of MultiSearch's tasks.
MultiStep ==
    \/ CollectStep
    \/ CollectAllDocuments
    \/ MultiSearcherListNext
    \/ \E s \in Searchers : SearcherTaskNext(s)
    \/ \E s \in Searchers : SearcherTaskSend(s)
    \/ CloseDocChan

MultiNext == MultiStep \/ Cancel

MultiSpec == MultiInit /\ [][MultiNext]_vars

\* A program that builds Config values: no collector runs.
ConfigInit ==
    /\ multi = FALSE
    /\ faults = FALSE
    /\ size = 0 /\ skip = 0 /\ searchAfter = 0 /\ reverse = FALSE
    /\ spc = <<>>
    /\ InitRun
    /\ NoConfig

ConfigNext ==
    \/ DefaultConfig
    \/ InMemoryOnlyConfig
    \/ \E c \in 1..Len(configs), napTime \in NapTimes : WithPersisterNapTimeMSec(c, napTime)
    \/ \E c \in 1..Len(configs), field \in Fields : WithVirtualField(c, field)
    \/ \E c \in 1..Len(configs), calc \in Calcs : WithNormCalc(c, calc)
    \/ \E c \in 1..Len(configs), plugin \in Plugins : WithSegmentPlugin(c, plugin)

ConfigSpec == ConfigInit /\ [][ConfigNext]_vars

(* ------------------------------ claims --------------------------------- *)

\* Collect has returned an iterator and no error.
Success == pc = "returned" /\ retIter /\ retErr = {}

\* Match i sorts before match j: by field value, ties by hit number.
SortsBefore(i, j) ==
    \/ Key(i) < Key(j)
    \/ Key(i) = Key(j) /\ HitNumber[i] < HitNumber[j]

\* The full matched set in sort order.
FullSorted ==
    [r \in 1..Emitted |->
        CHOOSE i \in 1..Emitted :
            Cardinality({j \in 1..Emitted : SortsBefore(j, i)}) = r - 1]

\* The elements of s at ranks [from, from + count), ranks counted from 0.
Slice(s, from, count) ==
    SubSeq(s, from + 1, IF from + count < Len(s) THEN from + count ELSE Len(s))

KeysDistinct == \A i, j \in 1..Emitted : i # j => Key(i) # Key(j)

\* C1: without a search-after key and without error, the iterator Collect
\* returns holds exactly the matches at ranks [skip, skip+size) of the full
\* matched set in sort order, ties broken by ascending hit number.
C1_TopNSlice ==
    (Success /\ searchAfter = 0) => results = Slice(FullSorted, skip, size)

\* A run of three matches, two of them with the same sort value, with
\* skip = 1 and size = 1, in which a match was evicted from the store.
C1_Witness ==
    /\ Success /\ searchAfter = 0 /\ skip = 1 /\ size = 1
    /\ Emitted = 3 /\ ~KeysDistinct
    /\ results = <<FullSorted[2]>>
    /\ lowest # 0

\* The matches that sort after the search-after key, in sort order.
AfterSorted ==
    LET keep(i) == Key(i) > searchAfter
    IN  SelectSeq(FullSorted, keep)

\* C2 as claimed: whatever match of sort key `after` ended the previous page
\* (rank p, counted from 1), the collector returns the page that starts
\* right behind it.
C2_NextPage ==
    (Success /\ searchAfter # 0 /\ ~reverse) =>
        \A p \in 1..Emitted :
            Key(FullSorted[p]) = searchAfter => results = Slice(FullSorted, p, size)

\* C2, amended: the collector returns the first size matches whose sort key
\* is strictly greater than `after` (reversed under reverse); that is the
\* page right behind the match of key `after` when no two matches share a
\* sort key.
C2_NextPageDistinct ==
    (Success /\ searchAfter # 0) =>
        /\ results = IF reverse THEN Reverse(Slice(AfterSorted, 0, size))
                                ELSE Slice(AfterSorted, 0, size)
        /\ (KeysDistinct /\ ~reverse) =>
              \A p \in 1..Emitted :
                  Key(FullSorted[p]) = searchAfter =>
                      results = Slice(FullSorted, p, size)

\* The page behind the first of two matches with distinct keys.
C2_Witness ==
    /\ Success /\ searchAfter # 0 /\ ~reverse /\ size > 0
    /\ KeysDistinct /\ Emitted = 2
    /\ Key(FullSorted[1]) = searchAfter
    /\ results = <<FullSorted[2]>>

\* C3: in a run that returns without error every match the searcher emitted
\* was folded into the root bucket exactly once.
C3_ConsumedOnce ==
    Success => \A i \in 1..Emitted : consumed[i] = 1

\* A run in which one match was skipped by the search-after filter, one is
\* held in the store, one was evicted from it and one dropped by the
\* short-circuit.
C3_Witness ==
    /\ Success /\ searchAfter # 0 /\ Emitted = 3
    /\ \E i \in 1..Emitted : Key(i) <= searchAfter
    /\ \E i \in 1..Emitted : puts[i] = 1
    /\ lowest # 0
    /\ \A i \in 1..Emitted : consumed[i] = 1

\* A searcher.Next call failed, a doc-value load failed, or a poll of
\* ctx.Done found it signalled.
Failed == nextFailed \/ pollHit \/ \E i \in 1..Emitted : Err[i]

\* C4: when a searcher.Next call failed, a doc-value load failed or a poll
\* found the context done, Collect returns a nil iterator and an error.
C4_NoPartialResults ==
    (pc = "returned" /\ Failed) => (~retIter /\ retErr # {} /\ results = <<>>)

\* Collect returned the load error of one match after another match had
\* gone through the whole pipeline into the store.
C4_Witness ==
    /\ pc = "returned" /\ retErr = {"load"} /\ ~retIter
    /\ \E i \in 1..Emitted : Err[i]
    /\ store # <<>>

\* C5: whenever the hit counter has moved past a multiple of CheckDoneEvery,
\* some task polled ctx.Done while the counter stood at that multiple.
C5_PollEveryCheckDoneEvery ==
    \A m \in 0..MaxDocs : (m % CheckDoneEvery = 0 /\ m < hitNumber) => m \in polled

\* C6: once Collect has returned and no task of the run can take a step, no
\* stage loop is left running.
C6_PipelinesShutDown ==
    (pc = "returned" /\ ~ENABLED Next) => \A s \in Stages : stState[s] # "running"

\* C7: once a poll has found the context signalled or a match has failed in
\* a stage, Collect pulls no further match, and nothing more goes into the
\* store or the aggregations.
C7_AbortAtCheckpoint ==
    [][(pollHit \/ \E i \in 1..Emitted : Err[i]) =>
          (docs' = docs /\ store' = store /\ consumed' = consumed)]_vars

(* --------------------------- MultiSearch claims ------------------------ *)

\* The number of positions of docs holding match n of searcher s.
Handed(s, n) == Cardinality({i \in 1..Emitted : docs[i].src = s /\ docs[i].n = n})

\* MultiSearcherList.Next has returned a nil match to Collect.
EndOfStream == multi /\ pc \in {"wait", "returned"} /\ stState["load"] # "unstarted"

\* C8: when a searcher task of MultiSearch failed (its Next or the loading of
\* a match's values returned an error) and nothing failed on the collector's
\* side, then once MultiSearch has returned every other searcher task ran to
\* the end of its searcher, every match sent was handed to the collector, the
\* channel is closed, and the return is an iterator with no error; Collect
\* never saw an error from Next.
C8_PartialResultSurfaced ==
    (/\ multi /\ pc = "returned"
     /\ \E s \in Searchers : spc[s] = "failed"
     /\ ~pollHit
     /\ \A i \in 1..Emitted : ~Err[i])
    => /\ Success
       /\ ~nextFailed
       /\ chanClosed /\ docChan = <<>>
       /\ \A s \in Searchers : spc[s] \in {"done", "failed"}
       /\ \A s \in Searchers : \A n \in 1..sent[s] : Handed(s, n) = 1
       /\ \A s \in Searchers : spc[s] = "done" => sent[s] = produced[s]
       /\ Emitted = Sum(sent, Searchers)

C8_Witness ==
    /\ multi /\ Success /\ chanClosed
    /\ \E s, t \in Searchers :
          /\ spc[s] = "failed" /\ sent[s] = 1
          /\ spc[t] = "done" /\ sent[t] = 2
    /\ Emitted = 3
    /\ results # <<>>

\* C9: no match is handed to the collector twice and only sent matches are
\* handed; Next returns nil only when every searcher task has ended and the
\* channel is drained, every sent match having been handed exactly once;
\* and when no searcher task failed, every match its searcher produced was.
C9_HandedExactlyOnce ==
    multi =>
      /\ \A s \in Searchers : \A n \in 1..produced[s] : Handed(s, n) <= 1
      /\ \A i \in 1..Emitted : docs[i].n <= sent[docs[i].src]
      /\ EndOfStream =>
            /\ \A s \in Searchers : spc[s] \in {"done", "failed"}
            /\ docChan = <<>>
            /\ \A s \in Searchers : \A n \in 1..sent[s] : Handed(s, n) = 1
      /\ (EndOfStream /\ \A s \in Searchers : spc[s] # "failed") =>
            /\ \A s \in Searchers : \A n \in 1..produced[s] : Handed(s, n) = 1
            /\ Emitted = Sum(produced, Searchers)

C9_Witness ==
    /\ EndOfStream
    /\ Len(spc) = 2
    /\ \A s \in Searchers : spc[s] = "done"
    /\ produced[1] = 1 /\ produced[2] = 2
    /\ Emitted = 3
    /\ docs[1].src = 2 /\ docs[2].src = 1

\* C10: once MultiSearch has returned with the context cancelled, no
\* searcher task is left waiting to send on a full channel (nothing receives
\* from the channel after the return, so such a task waits forever).
C10_NoSenderBlocked ==
    (multi /\ ctxDone /\ pc = "returned")
    => ~\E s \in Searchers : spc[s] = "send" /\ Len(docChan) = DocChanCap

(* ---------------------- pipeline claims, continued --------------------- *)

\* Match i sorts before match j when hit numbers follow emission order.
EmittedBefore(i, j) ==
    \/ Key(i) < Key(j)
    \/ Key(i) = Key(j) /\ i < j

\* The full matched set as a single task running the stages in-line on the
\* matches in emission order sorts it.
InlineSorted ==
    [r \in 1..Emitted |->
        CHOOSE i \in 1..Emitted :
            Cardinality({j \in 1..Emitted : EmittedBefore(j, i)}) = r - 1]

\* What that single task returns.
InlineResults ==
    LET keep(i) == searchAfter = 0 \/ Key(i) > searchAfter
        page == Slice(SelectSeq(InlineSorted, keep), skip, size)
    IN  IF reverse THEN Reverse(page) ELSE page

\* C11: a successful Collect returns what a single task running the four
\* stages in-line on the matches in emission order returns.
C11_SameAsInline == Success => results = InlineResults

StageOrder == <<"load", "sort", "consume", "compare">>

IsPrefix(a, b) == Len(a) <= Len(b) /\ a = SubSeq(b, 1, Len(a))

InQueue(q, i) == \E k \in 1..Len(q) : q[k] = i

InStore(i) == \E k \in 1..Len(store) : store[k] = i

\* C12: the signals a match got are a prefix of load, sort, consume, compare,
\* one per stage; its task moves to the next stage after exactly the signals
\* of the stages before it and ends without error after all four, whatever
\* branch the compare stage took; a match whose load failed has the load
\* stage's signal alone and entered no later stage.
C12_StagesInOrder ==
    \A i \in 1..Emitted :
        /\ IsPrefix(sig[i], StageOrder)
        /\ tpc[i] \in {"none", "check", "add", "sendLoad", "waitLoad", "cancelled"}
              => sig[i] = <<>>
        /\ tpc[i] = "waitSort" => sig[i] = SubSeq(StageOrder, 1, 1)
        /\ tpc[i] = "waitConsume" => sig[i] = SubSeq(StageOrder, 1, 2)
        /\ tpc[i] = "waitCompare" => sig[i] = SubSeq(StageOrder, 1, 3)
        /\ tpc[i] = "ok" => (sig[i] = StageOrder /\ ~Err[i])
        /\ (SortValue[i] # 0) = (Len(sig[i]) >= 2)
        /\ consumed[i] = (IF Len(sig[i]) >= 3 THEN 1 ELSE 0)
        /\ Err[i] =>
              /\ sig[i] = <<"load">> /\ tpc[i] = "err"
              /\ ~InQueue(sortQ, i) /\ ~InQueue(consumeQ, i) /\ ~InQueue(compareQ, i)
              /\ ~InStore(i) /\ lowest # i

\* A match skipped by the search-after filter and a match inserted into the
\* store have all four signals, next to a match whose load failed.
C12_Witness ==
    /\ searchAfter # 0
    /\ \E i, j, k \in 1..Emitted :
          /\ tpc[i] = "ok" /\ SkipAfter(i) /\ sig[i] = StageOrder
          /\ tpc[j] = "ok" /\ InStore(j) /\ sig[j] = StageOrder
          /\ Err[k] /\ sig[k] = <<"load">>

\* C13: under fair scheduling Collect returns and every per-match task it
\* started returns, whether or not doc-value loads fail.
C13_CollectReturns ==
    <>[](/\ pc = "returned"
         /\ \A i \in 1..Emitted : tpc[i] \in {"ok", "err", "cancelled"})

\* Collect has returned the load error of the second of three matches, the
\* other two having gone through all four stages.
C13_Witness ==
    /\ pc = "returned" /\ retErr = {"load"}
    /\ Emitted = 3
    /\ Err[2] /\ tpc[2] = "err"
    /\ tpc[1] = "ok" /\ tpc[3] = "ok"

\* C14: searcher.Close has been called once when Collect has returned,
\* whatever it returned, and not at all before.
C14_ClosedOnce == closeCalls = (IF pc = "returned" THEN 1 ELSE 0)

\* Collect returned the error of store.Final and closed the searcher.
C14_Witness ==
    /\ pc = "returned" /\ retErr = {"final"} /\ ~retIter
    /\ closePipelines
    /\ closeCalls = 1

\* C15: once searcher.Close has been called, every per-match task Collect
\* started has returned and no searcher task of MultiSearch is still
\* running; tasks only move forward, so this fails in the state the call
\* leads to whenever work was in flight at the call.
C15_NoWorkInFlightAtClose ==
    closeCalls > 0 =>
        /\ \A i \in 1..Emitted : tpc[i] \in {"ok", "err", "cancelled"}
        /\ \A s \in Searchers : spc[s] \in {"done", "failed"}

\* The matches the compare stage has taken off its channel and that passed
\* the search-after filter.
Candidates ==
    {i \in 1..Emitted : Len(sig[i]) >= 3 /\ ~InQueue(compareQ, i) /\ ~SkipAfter(i)}

\* lowestMatchOutsideResults sorts after every match of the store, and every
\* candidate outside the store (dropped or evicted) sorts after all of the
\* size+skip matches the store holds.
StoreHoldsBest ==
    /\ lowest # 0 => \A k \in 1..Len(store) : Compare(store[k], lowest) < 0
    /\ \A i \in Candidates :
          ~InStore(i) =>
              /\ Len(store) = size + skip
              /\ \A k \in 1..Len(store) : Compare(store[k], i) < 0

\* A step of the compare stage that inserts its match: a match it evicts
\* with lowestMatchOutsideResults set sorts before lowestMatchOutsideResults.
EvictsBetter ==
    (/\ compareQ # <<>> /\ compareQ' = Tail(compareQ)
     /\ ~SkipAfter(Head(compareQ))
     /\ putAfter' = putAfter
     /\ lowest # 0)
    => \A e \in {store[k] : k \in 1..Len(store)} \cup {Head(compareQ)} :
          (\A k \in 1..Len(store') : store'[k] # e) => Compare(e, lowest) < 0

\* C16: the store always holds the best size+skip candidates seen so far,
\* lowestMatchOutsideResults sorts after all of them (so a candidate dropped
\* by the short-circuit is not among them), and every match evicted after
\* the first eviction sorts before the current lowestMatchOutsideResults.
C16_ShortCircuitSound == [][StoreHoldsBest' /\ EvictsBetter]_vars

\* The short-circuit has just dropped a candidate (its Put is pending) with
\* a full, non-empty store.
C16_Witness ==
    /\ putAfter # 0 /\ lowest # 0
    /\ size + skip > 0 /\ Len(store) = size + skip
    /\ Compare(putAfter, lowest) > 0

\* C17: no match is put back into the DocumentMatchPool twice, no match held
\* in the store or as lowestMatchOutsideResults is put back, and every match
\* the compare stage is done with that is held in neither has been put back
\* once.
C17_PutBackOnce ==
    \A i \in 1..Emitted :
        /\ puts[i] <= 1
        /\ (InStore(i) \/ lowest = i) => puts[i] = 0
        /\ (/\ tpc[i] = "ok" /\ putAfter # i /\ putBefore # i
            /\ ~InStore(i) /\ lowest # i) => puts[i] = 1

(* ----------------------- MultiSearch claims, continued ----------------- *)

\* C18: docChan is closed by a step taken when every searcher task has
\* returned, normally or with an error; once closed it stays closed, no
\* searcher task is running and nothing more is sent on it; and a MultiSearch
\* that returned an iterator has closed it.
C18_ClosedAfterAllTasks ==
    [][/\ (~chanClosed /\ chanClosed') =>
              \A s \in Searchers : spc[s] \in {"done", "failed"}
       /\ chanClosed =>
              /\ chanClosed'
              /\ sent' = sent
              /\ Len(docChan') <= Len(docChan)
       /\ chanClosed' => \A s \in Searchers : spc'[s] \in {"done", "failed"}
       /\ Success' => chanClosed']_vars

\* The channel was closed, with a match still in it, after one of two
\* searcher tasks failed and the other one ended normally.
C18_Witness ==
    /\ multi /\ chanClosed /\ docChan # <<>>
    /\ Len(spc) = 2
    /\ spc[1] = "failed" /\ spc[2] = "done"
    /\ sent[1] > 0 /\ sent[2] > 0

\* C19: Collect's loop is never at its searcher.Next(searchContext) call
\* while the compare stage is at a DocumentMatchPool.Put on that context.
C19_PoolNotShared ==
    ~(/\ ~multi /\ pc = "next"
      /\ stState["compare"] = "running"
      /\ (putAfter # 0 \/ putBefore # 0))

\* C20: MultiSearch over no readers does not panic.
C20_EmptyTerminates == (multi /\ Len(spc) = 0) => ~Panicked

(* ----------------- pipeline claims: the short-circuit's Put ------------- *)

\* C22: a match the short-circuit drops is put back into the pool only after
\* its task has received the compare stage's signal: a match whose Put is
\* pending or done has the signals of all four stages and its task has
\* returned, so the Put never precedes the signal.
C22_PutAfterSignal ==
    \A i \in Ids :
        (putAfter = i \/ puts[i] > 0) => (sig[i] = StageOrder /\ tpc[i] = "ok")

\* A match that sorts after lowestMatchOutsideResults and is outside the
\* full store has been put back, its four signals received, and the compare
\* stage is back at its select.
C22_Witness ==
    /\ searchAfter = 0
    /\ lowest # 0 /\ putAfter = 0 /\ putBefore = 0
    /\ size + skip > 0 /\ Len(store) = size + skip
    /\ \E i \in 1..Emitted :
          /\ i # lowest /\ ~InStore(i)
          /\ Compare(i, lowest) > 0
          /\ puts[i] = 1
          /\ sig[i] = StageOrder /\ tpc[i] = "ok"

(* ------------------------------ Config claims -------------------------- *)

\* C21: a builder call leaves the Config it is called on as it was: after
\* c2 := c.WithPersisterNapTimeMSec(n), c.WithNormCalc(f), c.WithVirtualField(f)
\* or c.WithSegmentPlugin(p), every setting of every Config value held before
\* the call, its virtual fields and its plugin registry included, reads as
\* it did before the call.
C21_ReceiverUnchanged ==
    [][\A c \in 1..Len(configs) :
          Settings(configs', virtualFields', supportedSegmentPlugins', c)
              = Settings(configs, virtualFields, supportedSegmentPlugins, c)]_vars

====
